---------------------------- MODULE Spec2Model ----------------------------
(***************************************************************************)
(* Property changes of a real gas between two states: the ideal-gas        *)
(* contributions (heat-capacity and statistical-entropy integrals) plus    *)
(* the Peng-Robinson departure functions, as computed by                   *)
(* GasThermodynamicProperties_ex1.ipynb.                                   *)
(*                                                                         *)
(* Floating-point numbers are modelled as decimal floats with Digits       *)
(* significant digits: a value is m * 10^e with 10^(Digits-1) <= |m| <     *)
(* 10^Digits, or zero, an infinity, a NaN, a complex result, or a raised   *)
(* exception.  Every operation rounds to nearest, as the hardware does.    *)
(***************************************************************************)
EXTENDS Integers, Sequences, FiniteSets, TLC

-----------------------------------------------------------------------------
(* Decimal floating point                                                  *)

Digits == 6
MaxExp10 == 308
MinExp10 == -324

P10 == <<1, 10, 100, 1000, 10000, 100000, 1000000, 10000000, 100000000, 1000000000>>
Pow10(n) == P10[n + 1]

Abs(n) == IF n < 0 THEN -n ELSE n
Sgn(n) == IF n < 0 THEN -1 ELSE IF n = 0 THEN 0 ELSE 1

Zero == [k |-> "fin", m |-> 0, e |-> 0]
NaN == [k |-> "nan", m |-> 0, e |-> 0]
Inf(sg) == [k |-> "inf", m |-> sg, e |-> 0]
\* a raised exception (ZeroDivisionError): it aborts the expression it occurs in
Err == [k |-> "err", m |-> 0, e |-> 0]
\* a complex number (a negative float raised to a fractional power)
Cplx == [k |-> "cplx", m |-> 0, e |-> 0]

\* the literal m * 10^e, m written with Digits digits
Lit(m, e) == [k |-> "fin", m |-> m, e |-> e]

\* the number of decimal digits of a, 1 <= a < 2^31
NumDigits(a) ==
    IF a < 100000
    THEN (IF a < 100 THEN (IF a < 10 THEN 1 ELSE 2)
          ELSE IF a < 1000 THEN 3 ELSE IF a < 10000 THEN 4 ELSE 5)
    ELSE IF a < 10000000 THEN (IF a < 1000000 THEN 6 ELSE 7)
    ELSE IF a < 100000000 THEN 8 ELSE IF a < 1000000000 THEN 9 ELSE 10

\* a / 10^sh rounded to the nearest integer, halves up
RoundShift(a, sh) == (a + Pow10(sh) \div 2) \div Pow10(sh)

\* the float sg * m * 10^e for a normalised m, with overflow to infinity and
\* underflow to zero
Fin(sg, m, e) ==
    IF e + Digits - 1 > MaxExp10 THEN Inf(sg)
    ELSE IF e + Digits - 1 < MinExp10 THEN Zero
    ELSE [k |-> "fin", m |-> sg * m, e |-> e]

\* a rounded mantissa q that may have carried into one more digit
Carry(sg, q, e) ==
    IF q = Pow10(Digits) THEN Fin(sg, Pow10(Digits - 1), e + 1) ELSE Fin(sg, q, e)

\* sg * a * 10^e for an a of n digits
NormDigits(sg, a, e, n) ==
    IF n <= Digits THEN Fin(sg, a * Pow10(Digits - n), e - (Digits - n))
    ELSE Carry(sg, RoundShift(a, n - Digits), e + n - Digits)

\* sg * a * 10^e rounded to Digits significant digits (a >= 0)
Norm(sg, a, e) == IF a = 0 THEN Zero ELSE NormDigits(sg, a, e, NumDigits(a))

\* t * 10^e rounded to Digits significant digits
NormSigned(t, e) == Norm(IF t < 0 THEN -1 ELSE 1, Abs(t), e)

\* the float of the integer n
FInt(n) == NormSigned(n, 0)

IsFin(x) == x.k = "fin"
IsNaN(x) == x.k = "nan"
IsErr(x) == x.k = "err"
IsZero(x) == x.k = "fin" /\ x.m = 0
FSign(x) == IF x.k \in {"fin", "inf"} THEN Sgn(x.m) ELSE 0

\* what an operation yields when an operand is not a number, if anything
Special(x, y) ==
    IF x.k = "err" \/ y.k = "err" THEN Err
    ELSE IF x.k = "cplx" \/ y.k = "cplx" THEN Cplx
    ELSE NaN

HasSpecial(x, y) == x.k \in {"err", "cplx", "nan"} \/ y.k \in {"err", "cplx", "nan"}

FNeg(x) == IF x.k \in {"fin", "inf"} THEN [x EXCEPT !.m = -x.m] ELSE x

\* hi + lo for nonzero operands with hi.e >= lo.e, one guard digit kept
AddOrdered(hi, lo) ==
    IF hi.e - lo.e > Digits + 1 THEN hi
    ELSE NormSigned(hi.m * 10 + Sgn(lo.m) * RoundShift(Abs(lo.m) * 10, hi.e - lo.e),
                    hi.e - 1)

AddFin(x, y) ==
    IF x.m = 0 THEN y
    ELSE IF y.m = 0 THEN x
    ELSE AddOrdered(IF x.e >= y.e THEN x ELSE y, IF x.e >= y.e THEN y ELSE x)

FAdd(x, y) ==
    IF x.k = "fin" /\ y.k = "fin" THEN AddFin(x, y)
    ELSE IF HasSpecial(x, y) THEN Special(x, y)
    ELSE IF x.k = "inf" /\ y.k = "inf" THEN (IF x.m = y.m THEN x ELSE NaN)
    ELSE IF x.k = "inf" THEN x
    ELSE y

FSub(x, y) == FAdd(x, FNeg(y))

\* mantissas are multiplied by halves, so that no product exceeds a machine integer
Limb == Pow10(Digits \div 2)
High(a) == a \div Limb
Low(a) == a % Limb

\* the leading Digits + 1 digits of hi * Limb^2 + t * Limb
MulTop(hi, t) == (hi + t \div Limb) * 10 + ((t % Limb) * 10) \div Limb

MulAbs(a, b) ==
    MulTop(High(a) * High(b),
           High(a) * Low(b) + Low(a) * High(b) + (Low(a) * Low(b)) \div Limb)

MulFin(x, y) ==
    Norm(Sgn(x.m) * Sgn(y.m), MulAbs(Abs(x.m), Abs(y.m)), x.e + y.e + Digits - 1)

FMul(x, y) ==
    IF x.k = "fin" /\ y.k = "fin"
    THEN (IF x.m = 0 \/ y.m = 0 THEN Zero ELSE MulFin(x, y))
    ELSE IF HasSpecial(x, y) THEN Special(x, y)
    ELSE IF x.m = 0 \/ y.m = 0 THEN NaN
    ELSE Inf(Sgn(x.m) * Sgn(y.m))

\* one step of long division by d: the quotient qr[1] and remainder qr[2] so
\* far, extended by the digits that p = 10^n stands for
DivMore(d, qr, p) == <<qr[1] * p + (qr[2] * p) \div d, (qr[2] * p) % d>>

\* a / d to Digits + 1 digits after the point
DivAbs(a, d) ==
    DivMore(d, DivMore(d, DivMore(d, <<a \div d, a % d>>, 1000), 1000), 10)[1]

\* x / y for nonzero finite operands
DivFin(x, y) ==
    Norm(Sgn(x.m) * Sgn(y.m), DivAbs(Abs(x.m), Abs(y.m)), x.e - y.e - (Digits + 1))

\* x / y without the case of a zero divisor
DivNonZero(x, y) ==
    IF x.k = "inf" /\ y.k = "inf" THEN NaN
    ELSE IF x.k = "inf" THEN Inf(Sgn(x.m) * Sgn(y.m))
    ELSE IF y.k = "inf" THEN Zero
    ELSE IF x.m = 0 THEN Zero
    ELSE DivFin(x, y)

\* float / float of Python: a zero divisor raises ZeroDivisionError
PyDiv(x, y) ==
    IF x.k = "fin" /\ y.k = "fin"
    THEN (IF y.m = 0 THEN Err ELSE IF x.m = 0 THEN Zero ELSE DivFin(x, y))
    ELSE IF HasSpecial(x, y) THEN Special(x, y)
    ELSE IF IsZero(y) THEN Err
    ELSE DivNonZero(x, y)

\* numpy.float64 division: a zero divisor gives an infinity or a NaN
NpDiv(x, y) ==
    IF x.k = "fin" /\ y.k = "fin"
    THEN (IF y.m = 0 THEN (IF x.m = 0 THEN NaN ELSE Inf(Sgn(x.m)))
          ELSE IF x.m = 0 THEN Zero ELSE DivFin(x, y))
    ELSE IF HasSpecial(x, y) THEN Special(x, y)
    ELSE IF IsZero(y) THEN Inf(Sgn(x.m))
    ELSE DivNonZero(x, y)

\* the sign of x - y for numbers x, y
Cmp(x, y) == FSign(FSub(x, y))

\* x < y, x <= y (false when either is no number, as for a NaN)
FLt(x, y) == x.k \in {"fin", "inf"} /\ y.k \in {"fin", "inf"} /\ x /= y /\ Cmp(x, y) < 0
FLe(x, y) == x.k \in {"fin", "inf"} /\ y.k \in {"fin", "inf"} /\ (x = y \/ Cmp(x, y) < 0)

-----------------------------------------------------------------------------
(* Elementary functions                                                    *)

Ln10 == Lit(230259, -5)
HalfLn10 == Lit(115129, -5)
Sqrt10 == Lit(316228, -5)
Half == Lit(500000, -6)
One == Lit(100000, -5)
Two == Lit(200000, -5)

\* the integer nearest to a finite x with |x| < 10^9
ToInt(x) ==
    IF x.m = 0 THEN 0
    ELSE IF x.e >= 0 THEN x.m * Pow10(x.e)
    ELSE IF -x.e > 9 THEN 0
    ELSE Sgn(x.m) * RoundShift(Abs(x.m), -x.e)

RECURSIVE ISqrt(_, _)
\* Newton's iteration for the integer square root of n, from a guess g >= sqrt(n)
ISqrt(n, g) ==
    LET h == (g + n \div g) \div 2
    IN  IF h >= g THEN g ELSE ISqrt(n, h)

\* the root of M * 10^(2E) to the digits of the integer root of M
SqrtGuess(M, E) == Norm(1, ISqrt(M, IF M < 100000000 THEN 10000 ELSE 31623), E)

\* one Newton step from the guess g
SqrtNewton(x, g) == FMul(Half, FAdd(g, DivFin(x, g)))

\* the square root of a positive finite x, its exponent made even first
SqrtFin(x) ==
    SqrtNewton(x, SqrtGuess(IF x.e % 2 /= 0 THEN x.m * 1000 ELSE x.m * 100,
                            (IF x.e % 2 /= 0 THEN x.e - 3 ELSE x.e - 2) \div 2))

\* numpy.sqrt: NaN for a negative argument
FSqrt(x) ==
    IF x.k \in {"err", "cplx", "nan"} THEN x
    ELSE IF x.m < 0 THEN NaN
    ELSE IF x.k = "inf" \/ x.m = 0 THEN x
    ELSE SqrtFin(x)

\* x ** (1/2) and x ** 0.5 on a Python float: complex for a negative base
PowHalf(x) ==
    IF x.k \in {"err", "cplx", "nan"} THEN x
    ELSE IF x.m < 0 THEN Cplx
    ELSE IF x.k = "inf" \/ x.m = 0 THEN x
    ELSE SqrtFin(x)

\* x ** 2
PowTwo(x) == FMul(x, x)

RECURSIVE Horner(_, _, _, _)
\* c[1] + w * (c[2] + w * (... + w * acc)), from the coefficient c[i] down
Horner(c, w, i, acc) ==
    IF i = 0 \/ ~IsFin(acc) THEN acc
    ELSE Horner(c, w, i - 1, FAdd(c[i], FMul(w, acc)))

\* the polynomial c[1] + c[2] * w + ... in w
Poly(c, w) == Horner(c, w, Len(c) - 1, c[Len(c)])

\* 1/(2n+1), n = 0..5
AtanhCoef == << One, Lit(333333, -6), Lit(200000, -6), Lit(142857, -6),
                Lit(111111, -6), Lit(909091, -7) >>

\* 2 * (z + z^3/3 + z^5/5 + ...) = ln((1 + z) / (1 - z)), |z| < 0.3
AtanhSeries(z) == FMul(Two, FMul(z, Poly(AtanhCoef, PowTwo(z))))

\* ln(y * 10^E) + c for 0.56 <= y < 1.78
LnCore(y, c, E) ==
    FAdd(FAdd(FMul(FInt(E), Ln10), c),
         AtanhSeries(NpDiv(FSub(y, One), FAdd(y, One))))

\* ln(y * 10^E) for 0.56 <= y < 5.63: y is divided by sqrt(10) when mid
LnMid(y, E, mid) ==
    LnCore(IF mid THEN DivFin(y, Sqrt10) ELSE y, IF mid THEN HalfLn10 ELSE Zero, E)

\* the natural logarithm of a positive finite x = y * 10^E, 1 <= y < 10
LnFin(x) ==
    LnMid(Lit(x.m, IF x.m >= 562341 THEN -Digits ELSE -(Digits - 1)),
          IF x.m >= 562341 THEN x.e + Digits ELSE x.e + Digits - 1,
          177828 <= x.m /\ x.m < 562341)

\* numpy.log: NaN for a negative argument, -inf for zero (each with a warning
\* only, no exception)
FLn(x) ==
    IF x.k \in {"err", "cplx", "nan"} THEN x
    ELSE IF x.m < 0 THEN NaN
    ELSE IF x.k = "inf" THEN x
    ELSE IF x.m = 0 THEN Inf(-1)
    ELSE LnFin(x)

\* 1/n!, n = 0..11
ExpCoef == << One, One, Half, Lit(166667, -6), Lit(416667, -7), Lit(833333, -8),
              Lit(138889, -8), Lit(198413, -9), Lit(248016, -10), Lit(275573, -11),
              Lit(275573, -12), Lit(250521, -13) >>

\* y * 10^kk for a positive y
ExpScale(y, kk) == Fin(1, y.m, y.e + kk)

\* e^x = 10^kk * e^r with r = x - kk * ln 10
ExpReduced(x, kk) == ExpScale(Poly(ExpCoef, FSub(x, FMul(FInt(kk), Ln10))), kk)

\* e^x for a finite x, |x| <= 1000
ExpFin(x) == ExpReduced(x, ToInt(NpDiv(x, Ln10)))

\* numpy.exp: overflow gives inf, underflow gives 0
FExp(x) ==
    IF x.k \in {"err", "cplx", "nan"} THEN x
    ELSE IF x.k = "inf" THEN (IF x.m > 0 THEN x ELSE Zero)
    ELSE IF FLt(Lit(100000, -2), x) THEN Inf(1)
    ELSE IF FLt(x, Lit(-100000, -2)) THEN Zero
    ELSE ExpFin(x)

\* 1/(2n+1)!, n = 0..3
SinhCoef == << One, Lit(166667, -6), Lit(833333, -8), Lit(198413, -9) >>

\* numpy.sinh
FSinh(x) ==
    IF x.k \in {"err", "cplx", "nan", "inf"} THEN x
    ELSE IF FLt(FNeg(Half), x) /\ FLt(x, Half)
    THEN FMul(x, Poly(SinhCoef, PowTwo(x)))
    ELSE FMul(Half, FSub(FExp(x), FExp(FNeg(x))))

\* numpy.cosh
FCosh(x) ==
    IF x.k \in {"err", "cplx", "nan"} THEN x
    ELSE IF x.k = "inf" THEN Inf(1)
    ELSE FMul(Half, FAdd(FExp(x), FExp(FNeg(x))))

-----------------------------------------------------------------------------
(* Library constants and quadrature                                        *)

\* scipy.constants.R, Boltzmann, Planck, Avogadro; numpy.pi
R == Lit(831446, -5)
Boltzmann == Lit(138065, -28)
Planck == Lit(662607, -39)
Avogadro == Lit(602214, 18)
Pi == Lit(314159, -5)

\* the abscissae and weights of the 21-point Gauss-Kronrod rule that
\* scipy.integrate.quad (QUADPACK) applies to a finite interval; the centre
\* has its own weight
xgk == << Lit(995657, -6), Lit(973907, -6), Lit(930157, -6), Lit(865063, -6),
          Lit(780818, -6), Lit(679410, -6), Lit(562757, -6), Lit(433395, -6),
          Lit(294393, -6), Lit(148874, -6) >>
wgk == << Lit(116946, -7), Lit(325582, -7), Lit(547559, -7), Lit(750397, -7),
          Lit(931255, -7), Lit(109387, -6), Lit(123492, -6), Lit(134709, -6),
          Lit(142776, -6), Lit(147739, -6) >>
wgkCentre == Lit(149446, -6)

\* f(centr - absc) + f(centr + absc)
PairSum(F(_), centr, absc) == FAdd(F(FSub(centr, absc)), F(FAdd(centr, absc)))

RECURSIVE QuadSum(_, _, _, _, _)
\* the sum of wgk[j] * (f(centr - hlgth*xgk[j]) + f(centr + hlgth*xgk[j])), j = 1..n,
\* added to acc; an exception raised by f ends the summation
QuadSum(F(_), centr, hlgth, j, acc) ==
    IF j > Len(xgk) \/ IsErr(acc) THEN acc
    ELSE QuadSum(F, centr, hlgth, j + 1,
                 FAdd(acc, FMul(wgk[j], PairSum(F, centr, FMul(hlgth, xgk[j])))))

\* the rule on the interval of centre centr and half-length hlgth
QuadRule(F(_), centr, hlgth) ==
    FMul(QuadSum(F, centr, hlgth, 1, FMul(wgkCentre, F(centr))), hlgth)

\* scipy.integrate.quad(F, a, b)[0]: the integrand is evaluated at interior points
\* only, symmetric about the centre; an exception raised by F propagates
Quad(F(_), a, b) == QuadRule(F, FMul(Half, FAdd(a, b)), FMul(Half, FSub(b, a)))

-----------------------------------------------------------------------------
(* Ideal gas: heat capacity and statistical entropy of methane             *)

Cp(T) ==
    LET A == Lit(332980, -1)
        B == Lit(799330, -1)
        C == Lit(208690, -2)
        D == Lit(416020, -1)
        E == Lit(991960, -3)
        c_T == PyDiv(C, T)
        E_T == PyDiv(E, T)
        Cp_kmol == FAdd(FAdd(A, FMul(B, PowTwo(NpDiv(c_T, FSinh(c_T))))),
                        FMul(D, PowTwo(NpDiv(E_T, FCosh(E_T)))))
    IN  NpDiv(Cp_kmol, Lit(100000, -2))

Cv(T) == FAdd(Cp(T), R)

\* x ** (3/2) on a Python float
PowThreeHalves(x) == FMul(x, PowHalf(x))

thetaR == <<Lit(754000, -5), Lit(754000, -5), Lit(754000, -5)>>
thetaV == <<Lit(187000, -2), Lit(187000, -2), Lit(187000, -2), Lit(218000, -2),
            Lit(218000, -2), Lit(417000, -2), Lit(432000, -2), Lit(432000, -2)>>

\* x / (np.exp(x) - 1) - np.log(1 - np.exp(-x))
VibOf(x) == FSub(NpDiv(x, FSub(FExp(x), One)), FLn(FSub(One, FExp(FNeg(x)))))

\* one element of (θv / T) / (np.exp(θv / T) - 1) - np.log(1 - np.exp(-θv / T))
VibTerm(th, T) == VibOf(NpDiv(th, T))

RECURSIVE SeqSum(_, _, _)
\* np.sum of the array a, from element i on, added to acc
SeqSum(a, i, acc) ==
    IF i > Len(a) \/ IsErr(acc) THEN acc
    ELSE SeqSum(a, i + 1, FAdd(acc, a[i]))

\* the array of the vibrational terms, each distinct temperature θv computed once
VibTerms(T) ==
    LET vib == [th \in {thetaV[i] : i \in DOMAIN thetaV} |-> VibTerm(th, T)]
    IN  [i \in DOMAIN thetaV |-> vib[thetaV[i]]]

s(T, V) ==
    LET m_CH4 == Lit(160400, -7)
        sigma == Lit(120000, -4)
        W0 == One
        q == PyDiv(FMul(FMul(PyDiv(FMul(FMul(Two, Pi), m_CH4), Avogadro), Boltzmann), T),
                   PowTwo(Planck))
        term1 == FLn(NpDiv(FMul(FMul(PowThreeHalves(q), V), FExp(Lit(250000, -5))),
                           Avogadro))
        rot == NpDiv(FMul(FMul(Pi, FMul(FMul(T, T), T)), FExp(Lit(300000, -5))),
                     FMul(FMul(thetaR[1], thetaR[2]), thetaR[3]))
        term2 == FLn(FMul(PyDiv(One, sigma), FSqrt(rot)))
        term3 == SeqSum(VibTerms(T), 1, Zero)
        term4 == FLn(W0)
        S_NK == FAdd(FAdd(FAdd(term1, term2), term3), term4)
    IN  FMul(FMul(S_NK, Avogadro), Boltzmann)

-----------------------------------------------------------------------------
(* Peng-Robinson equation of state and departure functions                 *)

Sqrt2 == FSqrt(Two)
\* 2 ** (3/2)
TwoPowThreeHalves == Lit(282843, -5)

PRa(Tcr, Pcr, RR) == PyDiv(FMul(FMul(Lit(457240, -6), PowTwo(RR)), PowTwo(Tcr)), Pcr)
PRb(Tcr, Pcr, RR) == PyDiv(FMul(FMul(Lit(778000, -7), RR), Tcr), Pcr)
PRkappa(om) ==
    FSub(FAdd(Lit(374640, -6), FMul(Lit(154226, -5), om)),
         FMul(Lit(269920, -6), PowTwo(om)))
\* α = (1+(1-Tr**(1/2))*κ)**2 with Tr = T/Tc
PRalpha(T, Tcr, kappa) ==
    PowTwo(FAdd(One, FMul(FSub(One, PowHalf(PyDiv(T, Tcr))), kappa)))

\* (ν + (1 - np.sqrt(2))*b)/(ν + (1 + np.sqrt(2))*b)
LogArgument(nu, b) ==
    NpDiv(FAdd(nu, FMul(FSub(One, Sqrt2), b)), FAdd(nu, FMul(FAdd(One, Sqrt2), b)))

\* np.log((ν + (1 - np.sqrt(2))*b)/(ν + (1 + np.sqrt(2))*b))
LogTerm(nu, b) == FLn(LogArgument(nu, b))

\* ν**2 + 2*x*y - b**2 with the product 2*x*y taken in the order written
Denominator(nu, x, y, b) ==
    FSub(FAdd(PowTwo(nu), FMul(FMul(Two, x), y)), PowTwo(b))

entalphy(T, nu, om, Tcr, Pcr, RR) ==
    LET a == PRa(Tcr, Pcr, RR)
        b == PRb(Tcr, Pcr, RR)
        kappa == PRkappa(om)
        alpha == PRalpha(T, Tcr, kappa)
        t1 == PyDiv(FMul(FMul(FNeg(RR), T), b), FSub(nu, b))
        t2 == PyDiv(FMul(FMul(a, alpha), nu), Denominator(nu, nu, b, b))
        f1 == PyDiv(FMul(a, alpha), FMul(TwoPowThreeHalves, b))
        f2 == FAdd(One, FMul(kappa, PowHalf(PyDiv(T, FMul(alpha, Tcr)))))
        t3 == FMul(FMul(f1, f2), LogTerm(nu, b))
    IN  FSub(FAdd(t1, t2), t3)

peng_robinson_PExplicit(T, nu, Tcr, Pcr, om, RR) ==
    LET a == PRa(Tcr, Pcr, RR)
        b == PRb(Tcr, Pcr, RR)
        kappa == PRkappa(om)
        alpha == PRalpha(T, Tcr, kappa)
    IN  FSub(PyDiv(FMul(RR, T), FSub(nu, b)),
             PyDiv(FMul(a, alpha), Denominator(nu, b, nu, b)))

entrophy(T, nu, om, Tcr, Pcr, RR) ==
    LET a == PRa(Tcr, Pcr, RR)
        b == PRb(Tcr, Pcr, RR)
        kappa == PRkappa(om)
        P == peng_robinson_PExplicit(T, nu, Tcr, Pcr, om, RR)
        alpha == PRalpha(T, Tcr, kappa)
        t1 == FMul(RR, FLn(PyDiv(FMul(RR, T), FMul(FSub(nu, b), P))))
        f1 == PyDiv(FMul(a, kappa), FMul(Lit(400000, -5), b))
        f2 == PowHalf(PyDiv(FMul(Two, alpha), FMul(T, Tcr)))
    IN  FSub(t1, FMul(FMul(f1, f2), LogTerm(nu, b)))

\* R*T/P - ν at the pressure P of the equation of state
VolumeAt(T, nu, P, RR) == FSub(PyDiv(FMul(RR, T), P), nu)

volume(T, nu, om, Tcr, Pcr, RR) ==
    VolumeAt(T, nu, peng_robinson_PExplicit(T, nu, Tcr, Pcr, om, RR), RR)

\* a faulty variant of a departure formula: no departure at all
NoDeparture(a, T, nu, om, Tcr, Pcr, RR) == Zero

\* the statements of entalphy that follow a = ..., for an attraction parameter
\* a given as an argument
EnthalpyFormula(a, T, nu, om, Tcr, Pcr, RR) ==
    LET b == PRb(Tcr, Pcr, RR)
        kappa == PRkappa(om)
        alpha == PRalpha(T, Tcr, kappa)
        t1 == PyDiv(FMul(FMul(FNeg(RR), T), b), FSub(nu, b))
        t2 == PyDiv(FMul(FMul(a, alpha), nu), Denominator(nu, nu, b, b))
        f1 == PyDiv(FMul(a, alpha), FMul(TwoPowThreeHalves, b))
        f2 == FAdd(One, FMul(kappa, PowHalf(PyDiv(T, FMul(alpha, Tcr)))))
        t3 == FMul(FMul(f1, f2), LogTerm(nu, b))
    IN  FSub(FAdd(t1, t2), t3)

\* the same for peng_robinson_PExplicit
PressureFormula(a, T, nu, om, Tcr, Pcr, RR) ==
    LET b == PRb(Tcr, Pcr, RR)
        kappa == PRkappa(om)
        alpha == PRalpha(T, Tcr, kappa)
    IN  FSub(PyDiv(FMul(RR, T), FSub(nu, b)),
             PyDiv(FMul(a, alpha), Denominator(nu, b, nu, b)))

\* the same for entrophy, the pressure being that of the same a
EntropyFormula(a, T, nu, om, Tcr, Pcr, RR) ==
    LET b == PRb(Tcr, Pcr, RR)
        kappa == PRkappa(om)
        P == PressureFormula(a, T, nu, om, Tcr, Pcr, RR)
        alpha == PRalpha(T, Tcr, kappa)
        t1 == FMul(RR, FLn(PyDiv(FMul(RR, T), FMul(FSub(nu, b), P))))
        f1 == PyDiv(FMul(a, kappa), FMul(Lit(400000, -5), b))
        f2 == PowHalf(PyDiv(FMul(Two, alpha), FMul(T, Tcr)))
    IN  FSub(t1, FMul(FMul(f1, f2), LogTerm(nu, b)))

\* the same for volume
VolumeFormula(a, T, nu, om, Tcr, Pcr, RR) ==
    VolumeAt(T, nu, PressureFormula(a, T, nu, om, Tcr, Pcr, RR), RR)

\* the substance of the notebook, methane
Tc == Lit(190000, -3)
Pc == FMul(Lit(459900, -2), Lit(100000, -2))
omega == Lit(120000, -7)

-----------------------------------------------------------------------------
(* The statements of the notebook                                          *)

\* P1_id = R* T1 / ν1
\* a faulty variant of the ideal-gas pressure: one that does not come from the
\* volume of the state
PressureOfUnitVolume(T, nu) == FMul(R, T)

IdealPressure(T, nu) == PyDiv(FMul(R, T), nu)

\* quad(lambda T: Cv(T), T1, T2)[0]
Delta_u_id(Ta, Tb) == Quad(Cv, Ta, Tb)

\* a faulty variant of the ideal enthalpy change: Cv integrated in place of Cp
IntegralOfCv(Ta, Tb) == Quad(Cv, Ta, Tb)

\* quad(lambda T: Cp(T), T1, T2)[0]
Delta_h_id(Ta, Tb) == Quad(Cp, Ta, Tb)

\* quad(lambda P: 1/P, P1_id, P2_id)[0]
PressureIntegral(Pa, Pb) == Quad(LAMBDA P : PyDiv(One, P), Pa, Pb)

\* a faulty variant of the ideal Gibbs change: the entropy taken at the volume
\* of an ideal gas at the temperature and pressure of state 2, the pressure
\* term multiplied by the temperature of state 1
GibbsAtSecondVolume(Ta, nua, Tb, Pa, Pb) ==
    FAdd(FNeg(Quad(LAMBDA T : s(T, PyDiv(FMul(R, Tb), Pb)), Ta, Tb)),
         FMul(FMul(R, Ta), PressureIntegral(Pa, Pb)))

\* - quad(lambda T: s(T, ν1), T1, T2)[0] + R*T2*quad(lambda P: 1/P, P1_id, P2_id)[0]
Delta_g_id(Ta, nua, Tb, Pa, Pb) ==
    FAdd(FNeg(Quad(LAMBDA T : s(T, nua), Ta, Tb)),
         FMul(FMul(R, Tb), PressureIntegral(Pa, Pb)))

\* quad(lambda T: Cp(T) / T, T1, T2)[0] - R*quad(lambda P: 1/P, P1_id, P2_id)[0]
Delta_s_id(Ta, Tb, Pa, Pb) ==
    FSub(Quad(LAMBDA T : NpDiv(Cp(T), T), Ta, Tb), FMul(R, PressureIntegral(Pa, Pb)))

\* a faulty variant of the ideal volume change: the two terms added
SumOfIdealVolumes(Ta, Tb, Pa, Pb) ==
    FAdd(PyDiv(FMul(R, Ta), Pa), PyDiv(FMul(R, Tb), Pb))

\* -R *T1/P1_id + R*T2/P2_id
Delta_nu_id(Ta, Tb, Pa, Pb) ==
    FAdd(PyDiv(FMul(FNeg(R), Ta), Pa), PyDiv(FMul(R, Tb), Pb))

\* a faulty variant of the departure change: state 2 minus state 1
ReversedChange(d1, d2) == FSub(d2, d1)

\* Δh_prime = entalphy(T1, ν1, ...) - entalphy(T2, ν2, ...), and the like
DepartureChange(d1, d2) == FSub(d1, d2)

\* a faulty variant of the total: the departure change subtracted
IdealLessDeparture(id, prime) == FSub(id, prime)

\* Δh = Δh_id + Δh_prime, and the like
Total(id, prime) == FAdd(id, prime)

\* Δg1_prime = h1_prime - T1 * s1_prime
GibbsDeparture(h_prime, T, s_prime) == FSub(h_prime, FMul(T, s_prime))

\* a faulty variant of a derived departure: the product added
DepartureSum(h_prime, x, y) == FAdd(h_prime, FMul(x, y))

\* Δu1_prime = h1_prime - P1 * ν1_prime
EnergyDeparture(h_prime, P, nu_prime) == FSub(h_prime, FMul(P, nu_prime))

\* the departures of the substance at one state, as the cells compute them
h_departure(T, nu) == entalphy(T, nu, omega, Tc, Pc, R)
s_departure(T, nu) == entrophy(T, nu, omega, Tc, Pc, R)
v_departure(T, nu) == volume(T, nu, omega, Tc, Pc, R)
g_departure(T, nu) == GibbsDeparture(h_departure(T, nu), T, s_departure(T, nu))
u_departure(T, nu) ==
    EnergyDeparture(h_departure(T, nu), peng_robinson_PExplicit(T, nu, Tc, Pc, omega, R),
                    v_departure(T, nu))

\* the totals of a run of the notebook from the state (Ta, nua) to (Tb, nub)
h_change(Ta, nua, Tb, nub) ==
    Total(Delta_h_id(Ta, Tb), DepartureChange(h_departure(Ta, nua), h_departure(Tb, nub)))
u_change(Ta, nua, Tb, nub) ==
    Total(Delta_u_id(Ta, Tb), DepartureChange(u_departure(Ta, nua), u_departure(Tb, nub)))
s_change(Ta, nua, Tb, nub) ==
    Total(Delta_s_id(Ta, Tb, IdealPressure(Ta, nua), IdealPressure(Tb, nub)),
          DepartureChange(s_departure(Ta, nua), s_departure(Tb, nub)))
g_change(Ta, nua, Tb, nub) ==
    Total(Delta_g_id(Ta, nua, Tb, IdealPressure(Ta, nua), IdealPressure(Tb, nub)),
          DepartureChange(g_departure(Ta, nua), g_departure(Tb, nub)))
v_change(Ta, nua, Tb, nub) ==
    Total(Delta_nu_id(Ta, Tb, IdealPressure(Ta, nua), IdealPressure(Tb, nub)),
          DepartureChange(v_departure(Ta, nua), v_departure(Tb, nub)))

-----------------------------------------------------------------------------
(* The notebook as a state machine: one action per statement group         *)

\* a name that has not been assigned yet
None == [k |-> "none", m |-> 0, e |-> 0]

VARIABLES
    pc,                                      \* the statement group to run next
    T1, rho1, nu1, P1_id, T2, rho2, nu2, P2_id,
    du_id, dh_id, dg_id, ds_id, dnu_id,
    dh_prime, dh, ds_prime, ds,
    h1_prime, h2_prime, s1_prime, s2_prime,
    dg1_prime, dg2_prime, dg_prime, dg,
    dv_prime, dnu,
    P1, P2, nu1_prime, nu2_prime, du1_prime, du2_prime, du_prime, du,
    call, ret                                \* a direct call of a function, and its result

inputVars == <<T1, rho1, T2, rho2>>
stateVars == <<nu1, P1_id, nu2, P2_id>>
idealVars == <<du_id, dh_id, dg_id, ds_id, dnu_id>>
hVars == <<dh_prime, dh>>
sVars == <<ds_prime, ds>>
gVars == <<h1_prime, h2_prime, s1_prime, s2_prime, dg1_prime, dg2_prime, dg_prime, dg>>
vVars == <<dv_prime, dnu>>
uVars == <<P1, P2, nu1_prime, nu2_prime, du1_prime, du2_prime, du_prime, du>>
callVars == <<call, ret>>
vars == <<pc, inputVars, stateVars, idealVars, hVars, sVars, gVars, vVars, uVars, callVars>>

NStates == 4
NRawStates == 4
NCallTemps == 4
NCallVolumes == 5

Prefix(q, n) == {q[i] : i \in 1..(IF n < Len(q) THEN n ELSE Len(q))}

\* states (T in K, molar density in mol/m3) of a gas above its covolume; the
\* first two are the notebook's: T1 = 273.15 - 100, ρ1 = 18800 and
\* T2 = 273.15 + 25, ρ2 = 750
StateList ==
    << <<FSub(Lit(273150, -3), Lit(100000, -3)), Lit(188000, -1)>>,
       <<FAdd(Lit(273150, -3), Lit(250000, -4)), Lit(750000, -3)>>,
       <<Lit(230000, -3), Lit(900000, -2)>>,
       <<Lit(350000, -3), Lit(100000, -3)>>,
       <<Lit(173150, -3), Lit(750000, -3)>>,
       <<Lit(298150, -3), Lit(188000, -1)>> >>
GasStates == Prefix(StateList, NStates)

\* states as a user may type them into the first cell: a negative density and a
\* zero temperature among them
RawStateList ==
    << StateList[1],
       <<StateList[2][1], FNeg(StateList[2][2])>>,
       <<Zero, StateList[1][2]>>,
       <<StateList[1][1], FNeg(StateList[1][2])>>,
       StateList[2],
       <<Zero, FNeg(StateList[2][2])>> >>
RawStates == Prefix(RawStateList, NRawStates)

NoCall == [fn |-> "none", T |-> None, nu |-> None]

Unassigned ==
    /\ nu1 = None /\ P1_id = None /\ nu2 = None /\ P2_id = None
    /\ du_id = None /\ dh_id = None /\ dg_id = None /\ ds_id = None /\ dnu_id = None
    /\ dh_prime = None /\ dh = None /\ ds_prime = None /\ ds = None
    /\ h1_prime = None /\ h2_prime = None /\ s1_prime = None /\ s2_prime = None
    /\ dg1_prime = None /\ dg2_prime = None /\ dg_prime = None /\ dg = None
    /\ dv_prime = None /\ dnu = None
    /\ P1 = None /\ P2 = None /\ nu1_prime = None /\ nu2_prime = None
    /\ du1_prime = None /\ du2_prime = None /\ du_prime = None /\ du = None
    /\ call = NoCall /\ ret = None

\* the first cell with the states a and b typed in
Typed(a, b) ==
    /\ pc = "states"
    /\ T1 = a[1] /\ rho1 = a[2] /\ T2 = b[1] /\ rho2 = b[2]
    /\ Unassigned

Init == \E a \in GasStates, b \in GasStates : Typed(a, b)

InitRaw == \E a \in RawStates, b \in RawStates : Typed(a, b)

\* ν1 = 1/ ρ1; P1_id = R* T1 / ν1; ν2 = 1/ ρ2; P2_id = R* T2 / ν2
States ==
    /\ pc = "states"
    /\ \E n1 \in {PyDiv(One, rho1)}, n2 \in {PyDiv(One, rho2)} :
       \E p1 \in {IdealPressure(T1, n1)}, p2 \in {IdealPressure(T2, n2)} :
           /\ nu1' = (IF IsErr(n1) THEN None ELSE n1)
           /\ P1_id' = (IF IsErr(p1) THEN None ELSE p1)
           /\ nu2' = (IF IsErr(p1) \/ IsErr(n2) THEN None ELSE n2)
           /\ P2_id' = (IF IsErr(p1) \/ IsErr(p2) THEN None ELSE p2)
           /\ pc' = (IF IsErr(p1) \/ IsErr(p2) THEN "failed" ELSE "du_id")
    /\ UNCHANGED <<inputVars, idealVars, hVars, sVars, gVars, vVars, uVars, callVars>>

\* Δu_id = quad(lambda T: Cv(T), T1, T2)[0]
IdealU ==
    /\ pc = "du_id"
    /\ \E v \in {Delta_u_id(T1, T2)} :
           /\ du_id' = (IF IsErr(v) THEN None ELSE v)
           /\ pc' = (IF IsErr(v) THEN "failed" ELSE "dh_id")
    /\ UNCHANGED <<inputVars, stateVars, dh_id, dg_id, ds_id, dnu_id,
                   hVars, sVars, gVars, vVars, uVars, callVars>>

\* Δh_id = quad(lambda T: Cp(T), T1, T2)[0]
IdealH ==
    /\ pc = "dh_id"
    /\ \E v \in {Delta_h_id(T1, T2)} :
           /\ dh_id' = (IF IsErr(v) THEN None ELSE v)
           /\ pc' = (IF IsErr(v) THEN "failed" ELSE "dg_id")
    /\ UNCHANGED <<inputVars, stateVars, du_id, dg_id, ds_id, dnu_id,
                   hVars, sVars, gVars, vVars, uVars, callVars>>

\* Δg_id = - quad(lambda T: s(T, ν1), T1, T2)[0] + R*T2*quad(lambda P: 1/P, P1_id, P2_id)[0]
IdealG ==
    /\ pc = "dg_id"
    /\ \E v \in {Delta_g_id(T1, nu1, T2, P1_id, P2_id)} :
           /\ dg_id' = (IF IsErr(v) THEN None ELSE v)
           /\ pc' = (IF IsErr(v) THEN "failed" ELSE "ds_id")
    /\ UNCHANGED <<inputVars, stateVars, du_id, dh_id, ds_id, dnu_id,
                   hVars, sVars, gVars, vVars, uVars, callVars>>

\* Δs_id = quad(lambda T: Cp(T) / T, T1, T2)[0] - R*quad(lambda P: 1/P, P1_id, P2_id)[0]
IdealS ==
    /\ pc = "ds_id"
    /\ \E v \in {Delta_s_id(T1, T2, P1_id, P2_id)} :
           /\ ds_id' = (IF IsErr(v) THEN None ELSE v)
           /\ pc' = (IF IsErr(v) THEN "failed" ELSE "dnu_id")
    /\ UNCHANGED <<inputVars, stateVars, du_id, dh_id, dg_id, dnu_id,
                   hVars, sVars, gVars, vVars, uVars, callVars>>

\* Δν_id = -R *T1/P1_id + R*T2/P2_id
IdealNu ==
    /\ pc = "dnu_id"
    /\ \E v \in {Delta_nu_id(T1, T2, P1_id, P2_id)} :
           /\ dnu_id' = (IF IsErr(v) THEN None ELSE v)
           /\ pc' = (IF IsErr(v) THEN "failed" ELSE "h")
    /\ UNCHANGED <<inputVars, stateVars, du_id, dh_id, dg_id, ds_id,
                   hVars, sVars, gVars, vVars, uVars, callVars>>

\* Δh_prime = entalphy(T1, ν1, ω, Tc, Pc, R) - entalphy(T2, ν2, ω, Tc, Pc, R)
\* Δh = Δh_id + Δh_prime
DepartureH ==
    /\ pc = "h"
    /\ \E d \in {DepartureChange(entalphy(T1, nu1, omega, Tc, Pc, R),
                                entalphy(T2, nu2, omega, Tc, Pc, R))} :
           /\ dh_prime' = (IF IsErr(d) THEN None ELSE d)
           /\ dh' = (IF IsErr(d) THEN None ELSE Total(dh_id, d))
           /\ pc' = (IF IsErr(d) THEN "failed" ELSE "s")
    /\ UNCHANGED <<inputVars, stateVars, idealVars, sVars, gVars, vVars, uVars, callVars>>

\* Δs_prime = entrophy(T1, ν1, ω, Tc, Pc, R) - entrophy(T2, ν2, ω, Tc, Pc, R)
\* Δs = Δs_id + Δs_prime
DepartureS ==
    /\ pc = "s"
    /\ \E d \in {DepartureChange(entrophy(T1, nu1, omega, Tc, Pc, R),
                                entrophy(T2, nu2, omega, Tc, Pc, R))} :
           /\ ds_prime' = (IF IsErr(d) THEN None ELSE d)
           /\ ds' = (IF IsErr(d) THEN None ELSE Total(ds_id, d))
           /\ pc' = (IF IsErr(d) THEN "failed" ELSE "g")
    /\ UNCHANGED <<inputVars, stateVars, idealVars, hVars, gVars, vVars, uVars, callVars>>

\* the value a statement assigns: the name keeps its old value when the
\* statement, or one before it in the cell, raised
Assigned(ok, v, old) == IF ok THEN v ELSE old

\* h1_prime, h2_prime, s1_prime, s2_prime = entalphy(T1, ν1, ...), ...
\* Δg1_prime = h1_prime - T1 * s1_prime; Δg2_prime = h2_prime - T2 * s2_prime
\* Δg_prime = Δg1_prime - Δg2_prime; Δg = Δg_id + Δg_prime
DepartureG ==
    /\ pc = "g"
    /\ \E h1 \in {entalphy(T1, nu1, omega, Tc, Pc, R)},
          h2 \in {entalphy(T2, nu2, omega, Tc, Pc, R)},
          s1 \in {entrophy(T1, nu1, omega, Tc, Pc, R)},
          s2 \in {entrophy(T2, nu2, omega, Tc, Pc, R)} :
       LET ok1 == ~IsErr(h1)
           ok2 == ok1 /\ ~IsErr(h2)
           ok3 == ok2 /\ ~IsErr(s1)
           ok4 == ok3 /\ ~IsErr(s2)
           g1 == GibbsDeparture(h1, T1, s1)
           g2 == GibbsDeparture(h2, T2, s2)
           d == DepartureChange(g1, g2)
       IN  /\ h1_prime' = Assigned(ok1, h1, h1_prime)
           /\ h2_prime' = Assigned(ok2, h2, h2_prime)
           /\ s1_prime' = Assigned(ok3, s1, s1_prime)
           /\ s2_prime' = Assigned(ok4, s2, s2_prime)
           /\ dg1_prime' = Assigned(ok4, g1, dg1_prime)
           /\ dg2_prime' = Assigned(ok4, g2, dg2_prime)
           /\ dg_prime' = Assigned(ok4, d, dg_prime)
           /\ dg' = Assigned(ok4, Total(dg_id, d), dg)
           /\ pc' = (IF ok4 THEN "v" ELSE "failed")
    /\ UNCHANGED <<inputVars, stateVars, idealVars, hVars, sVars, vVars, uVars, callVars>>

\* Δv_prime = volume(T1, ν1, ω, Tc, Pc, R) - volume(T2, ν2, ω, Tc, Pc, R)
\* Δν = Δν_id + Δv_prime
DepartureV ==
    /\ pc = "v"
    /\ \E d \in {DepartureChange(volume(T1, nu1, omega, Tc, Pc, R),
                                volume(T2, nu2, omega, Tc, Pc, R))} :
           /\ dv_prime' = (IF IsErr(d) THEN None ELSE d)
           /\ dnu' = (IF IsErr(d) THEN None ELSE Total(dnu_id, d))
           /\ pc' = (IF IsErr(d) THEN "failed" ELSE "u")
    /\ UNCHANGED <<inputVars, stateVars, idealVars, hVars, sVars, gVars, uVars, callVars>>

\* P1 = peng_robinson_PExplicit(T1, ν1, ...); h1_prime = entalphy(T1, ν1, ...)
\* ν1_prime = volume(T1, ν1, ...); Δu1_prime = h1_prime - P1 * ν1_prime
\* the same for state 2; Δu_prime = Δu1_prime - Δu2_prime; Δu = Δu_id + Δu_prime
DepartureU ==
    /\ pc = "u"
    /\ \E p1 \in {peng_robinson_PExplicit(T1, nu1, Tc, Pc, omega, R)},
          h1 \in {entalphy(T1, nu1, omega, Tc, Pc, R)},
          v1 \in {volume(T1, nu1, omega, Tc, Pc, R)},
          p2 \in {peng_robinson_PExplicit(T2, nu2, Tc, Pc, omega, R)},
          h2 \in {entalphy(T2, nu2, omega, Tc, Pc, R)},
          v2 \in {volume(T2, nu2, omega, Tc, Pc, R)} :
       LET ok1 == ~IsErr(p1)
           ok2 == ok1 /\ ~IsErr(h1)
           ok3 == ok2 /\ ~IsErr(v1)
           ok4 == ok3 /\ ~IsErr(p2)
           ok5 == ok4 /\ ~IsErr(h2)
           ok6 == ok5 /\ ~IsErr(v2)
           u1 == EnergyDeparture(h1, p1, v1)
           u2 == EnergyDeparture(h2, p2, v2)
           d == DepartureChange(u1, u2)
       IN  /\ P1' = Assigned(ok1, p1, P1)
           /\ nu1_prime' = Assigned(ok3, v1, nu1_prime)
           /\ du1_prime' = Assigned(ok3, u1, du1_prime)
           /\ P2' = Assigned(ok4, p2, P2)
           /\ nu2_prime' = Assigned(ok6, v2, nu2_prime)
           /\ du2_prime' = Assigned(ok6, u2, du2_prime)
           /\ du_prime' = Assigned(ok6, d, du_prime)
           /\ du' = Assigned(ok6, Total(du_id, d), du)
           /\ h1_prime' = Assigned(ok2, h1, h1_prime)
           /\ h2_prime' = Assigned(ok5, h2, h2_prime)
           /\ pc' = (IF ok6 THEN "done" ELSE "failed")
    /\ UNCHANGED <<inputVars, stateVars, idealVars, hVars, sVars, vVars, callVars,
                   s1_prime, s2_prime, dg1_prime, dg2_prime, dg_prime, dg>>

Next ==
    \/ States
    \/ IdealU
    \/ IdealH
    \/ IdealG
    \/ IdealS
    \/ IdealNu
    \/ DepartureH
    \/ DepartureS
    \/ DepartureG
    \/ DepartureV
    \/ DepartureU

\* the notebook run on every pair of states above the covolume
Spec == Init /\ [][Next]_vars

\* the notebook run on states as typed, valid or not
SpecRaw == InitRaw /\ [][Next]_vars

-----------------------------------------------------------------------------
(* The functions of the notebook called on their own                       *)

\* the covolume of methane
bCov == PRb(Tc, Pc, R)

\* temperatures to call with: the notebook's, zero, a negative one
CallTempList == <<StateList[1][1], StateList[2][1], Zero, Lit(-200000, -3),
                  Lit(230000, -3)>>
CallTemps == Prefix(CallTempList, NCallTemps)

\* molar volumes to call with: the notebook's, the covolume, fractions of it
CallVolumeList ==
    << PyDiv(One, StateList[1][2]), PyDiv(One, StateList[2][2]), bCov,
       FMul(Half, bCov), FMul(Lit(250000, -6), bCov), FMul(Two, bCov) >>
CallVolumes == Prefix(CallVolumeList, NCallVolumes)

InitCalls ==
    /\ pc = "call"
    /\ T1 = None /\ rho1 = None /\ T2 = None /\ rho2 = None
    /\ Unassigned

\* a call leaves the names of the notebook alone
notebookVars == <<inputVars, stateVars, idealVars, hVars, sVars, gVars, vVars, uVars>>

\* each call records its arguments and what it returned, Err when it raised
CallCp ==
    /\ pc = "call"
    /\ \E T \in CallTemps :
           /\ call' = [fn |-> "Cp", T |-> T, nu |-> None]
           /\ ret' = Cp(T)
    /\ pc' = "returned"
    /\ UNCHANGED notebookVars

CallCv ==
    /\ pc = "call"
    /\ \E T \in CallTemps :
           /\ call' = [fn |-> "Cv", T |-> T, nu |-> None]
           /\ ret' = Cv(T)
    /\ pc' = "returned"
    /\ UNCHANGED notebookVars

CallS ==
    /\ pc = "call"
    /\ \E T \in CallTemps, nu \in CallVolumes :
           /\ call' = [fn |-> "s", T |-> T, nu |-> nu]
           /\ ret' = s(T, nu)
    /\ pc' = "returned"
    /\ UNCHANGED notebookVars

CallPressure ==
    /\ pc = "call"
    /\ \E T \in CallTemps, nu \in CallVolumes :
           /\ call' = [fn |-> "peng_robinson_PExplicit", T |-> T, nu |-> nu]
           /\ ret' = peng_robinson_PExplicit(T, nu, Tc, Pc, omega, R)
    /\ pc' = "returned"
    /\ UNCHANGED notebookVars

CallEntalphy ==
    /\ pc = "call"
    /\ \E T \in CallTemps, nu \in CallVolumes :
           /\ call' = [fn |-> "entalphy", T |-> T, nu |-> nu]
           /\ ret' = entalphy(T, nu, omega, Tc, Pc, R)
    /\ pc' = "returned"
    /\ UNCHANGED notebookVars

CallEntrophy ==
    /\ pc = "call"
    /\ \E T \in CallTemps, nu \in CallVolumes :
           /\ call' = [fn |-> "entrophy", T |-> T, nu |-> nu]
           /\ ret' = entrophy(T, nu, omega, Tc, Pc, R)
    /\ pc' = "returned"
    /\ UNCHANGED notebookVars

CallVolume ==
    /\ pc = "call"
    /\ \E T \in CallTemps, nu \in CallVolumes :
           /\ call' = [fn |-> "volume", T |-> T, nu |-> nu]
           /\ ret' = volume(T, nu, omega, Tc, Pc, R)
    /\ pc' = "returned"
    /\ UNCHANGED notebookVars

NextCalls ==
    \/ CallCp
    \/ CallCv
    \/ CallS
    \/ CallPressure
    \/ CallEntalphy
    \/ CallEntrophy
    \/ CallVolume

SpecCalls == InitCalls /\ [][NextCalls]_vars

-----------------------------------------------------------------------------
(* The notebook for a substance without attraction                         *)

\* the departure cell for a substance whose attraction parameter a is 0, its
\* covolume b as computed from Tc and Pc: every departure of the two states,
\* the five departure changes and the five totals
DeparturesWithoutAttraction ==
    /\ pc = "h"
    /\ \E a \in {Zero} :
       \E h1 \in {EnthalpyFormula(a, T1, nu1, omega, Tc, Pc, R)},
          h2 \in {EnthalpyFormula(a, T2, nu2, omega, Tc, Pc, R)},
          s1 \in {EntropyFormula(a, T1, nu1, omega, Tc, Pc, R)},
          s2 \in {EntropyFormula(a, T2, nu2, omega, Tc, Pc, R)},
          v1 \in {VolumeFormula(a, T1, nu1, omega, Tc, Pc, R)},
          v2 \in {VolumeFormula(a, T2, nu2, omega, Tc, Pc, R)},
          p1 \in {PressureFormula(a, T1, nu1, omega, Tc, Pc, R)},
          p2 \in {PressureFormula(a, T2, nu2, omega, Tc, Pc, R)} :
       IF \E x \in {h1, h2, s1, s2, v1, v2, p1, p2} : IsErr(x)
       THEN /\ pc' = "failed"
            /\ UNCHANGED <<hVars, sVars, gVars, vVars, uVars>>
       ELSE /\ h1_prime' = h1 /\ h2_prime' = h2
            /\ s1_prime' = s1 /\ s2_prime' = s2
            /\ nu1_prime' = v1 /\ nu2_prime' = v2
            /\ P1' = p1 /\ P2' = p2
            /\ dg1_prime' = GibbsDeparture(h1, T1, s1)
            /\ dg2_prime' = GibbsDeparture(h2, T2, s2)
            /\ du1_prime' = EnergyDeparture(h1, p1, v1)
            /\ du2_prime' = EnergyDeparture(h2, p2, v2)
            /\ dh_prime' = DepartureChange(h1, h2)
            /\ ds_prime' = DepartureChange(s1, s2)
            /\ dv_prime' = DepartureChange(v1, v2)
            /\ dg_prime' = DepartureChange(dg1_prime', dg2_prime')
            /\ du_prime' = DepartureChange(du1_prime', du2_prime')
            /\ dh' = Total(dh_id, dh_prime')
            /\ ds' = Total(ds_id, ds_prime')
            /\ dnu' = Total(dnu_id, dv_prime')
            /\ dg' = Total(dg_id, dg_prime')
            /\ du' = Total(du_id, du_prime')
            /\ pc' = "done"
    /\ UNCHANGED <<inputVars, stateVars, idealVars, callVars>>

NextLimit ==
    \/ States
    \/ IdealU
    \/ IdealH
    \/ IdealG
    \/ IdealS
    \/ IdealNu
    \/ DeparturesWithoutAttraction

\* the notebook run, for the substance without attraction, on every pair of
\* states above the covolume
SpecLimit == Init /\ [][NextLimit]_vars

-----------------------------------------------------------------------------
(* Properties                                                              *)

\* x > 0
Positive(x) == FLt(Zero, x)

\* C1: for every temperature T > 0 the call Cv(T) returns Cp(T) - R
C1_CvIsCpMinusR ==
    (call.fn = "Cv" /\ Positive(call.T)) => ret = FSub(Cp(call.T), R)

\* C7: peng_robinson_PExplicit called with a molar volume 0 < ν <= b, at the
\* covolume or below it, raises an error: it returns no number
C7_PressureRaisesUpToCovolume ==
    (/\ call.fn = "peng_robinson_PExplicit"
     /\ Positive(call.T) /\ Positive(call.nu) /\ FLe(call.nu, bCov))
        => IsErr(ret)

\* C8: Cp(T) called with T <= 0, zero or negative, raises an error or returns
\* NaN: it returns no finite heat capacity
C8_CpFailsForNonPositiveT ==
    (call.fn = "Cp" /\ FLe(call.T, Zero)) => (IsErr(ret) \/ IsNaN(ret))

\* C10: entalphy and entrophy raise an error whenever ν + (1 - sqrt(2))*b, or
\* the argument of a logarithm they take, is not strictly positive: they
\* return neither NaN nor any other value then
C10_DeparturesRaiseOnLogHazard ==
    (/\ call.fn \in {"entalphy", "entrophy"}
     /\ Positive(call.T) /\ Positive(call.nu)
     /\ \/ ~Positive(FAdd(call.nu, FMul(FSub(One, Sqrt2), bCov)))
        \/ ~Positive(LogArgument(call.nu, bCov))
        \/ /\ call.fn = "entrophy"
           /\ ~Positive(PyDiv(FMul(R, call.T),
                              FMul(FSub(call.nu, bCov),
                                   peng_robinson_PExplicit(call.T, call.nu, Tc, Pc,
                                                           omega, R)))))
        => IsErr(ret)

\* C2 as amended: each of the five totals is the ideal-gas contribution plus
\* (the departure at state 1 minus the departure at state 2)
C2_TotalAddsDepartureOneMinusTwo ==
    pc = "done" =>
        /\ dh = FAdd(dh_id, FSub(h_departure(T1, nu1), h_departure(T2, nu2)))
        /\ ds = FAdd(ds_id, FSub(s_departure(T1, nu1), s_departure(T2, nu2)))
        /\ dg = FAdd(dg_id, FSub(g_departure(T1, nu1), g_departure(T2, nu2)))
        /\ dnu = FAdd(dnu_id, FSub(v_departure(T1, nu1), v_departure(T2, nu2)))
        /\ du = FAdd(du_id, FSub(u_departure(T1, nu1), u_departure(T2, nu2)))

\* C2 as stated: each of the five totals is the ideal-gas contribution plus
\* (the departure at state 2 minus the departure at state 1)
C2_TotalAddsDepartureTwoMinusOne ==
    pc = "done" =>
        /\ dh = FAdd(dh_id, FSub(h_departure(T2, nu2), h_departure(T1, nu1)))
        /\ ds = FAdd(ds_id, FSub(s_departure(T2, nu2), s_departure(T1, nu1)))
        /\ dg = FAdd(dg_id, FSub(g_departure(T2, nu2), g_departure(T1, nu1)))
        /\ dnu = FAdd(dnu_id, FSub(v_departure(T2, nu2), v_departure(T1, nu1)))
        /\ du = FAdd(du_id, FSub(u_departure(T2, nu2), u_departure(T1, nu1)))

\* C2 witness: a finished run in which every departure differs between the states
C2_RunWithDepartureChange ==
    /\ pc = "done"
    /\ IsFin(dh) /\ IsFin(ds) /\ IsFin(dg) /\ IsFin(dnu) /\ IsFin(du)
    /\ dh /= dh_id /\ ds /= ds_id /\ dg /= dg_id /\ dnu /= dnu_id /\ du /= du_id

\* C3: each of the five departure changes is the departure at state 1 minus the
\* departure at state 2, and each ideal-gas contribution runs the other way,
\* from state 1 to state 2: an integral over an interval of half-length
\* (T2 - T1)/2 or (P2 - P1)/2, a volume at state 2 minus a volume at state 1
C3_DepartureOneMinusTwoIdealTwoMinusOne ==
    pc = "done" =>
        LET Tmid == FMul(Half, FAdd(T1, T2))
            Thalf == FMul(Half, FSub(T2, T1))
            lnP == QuadRule(LAMBDA P : PyDiv(One, P), FMul(Half, FAdd(P1_id, P2_id)),
                            FMul(Half, FSub(P2_id, P1_id)))
        IN  /\ dh_prime = FSub(h_departure(T1, nu1), h_departure(T2, nu2))
            /\ ds_prime = FSub(s_departure(T1, nu1), s_departure(T2, nu2))
            /\ dg_prime = FSub(g_departure(T1, nu1), g_departure(T2, nu2))
            /\ dv_prime = FSub(v_departure(T1, nu1), v_departure(T2, nu2))
            /\ du_prime = FSub(u_departure(T1, nu1), u_departure(T2, nu2))
            /\ dh_id = QuadRule(Cp, Tmid, Thalf)
            /\ du_id = QuadRule(Cv, Tmid, Thalf)
            /\ ds_id = FSub(QuadRule(LAMBDA T : NpDiv(Cp(T), T), Tmid, Thalf), FMul(R, lnP))
            /\ dg_id = FAdd(FNeg(QuadRule(LAMBDA T : s(T, nu1), Tmid, Thalf)),
                            FMul(FMul(R, T2), lnP))
            /\ dnu_id = FSub(PyDiv(FMul(R, T2), P2_id), PyDiv(FMul(R, T1), P1_id))

\* C3 witness: a finished run between states of different temperature and
\* volume, with nonzero departure changes
C3_RunBetweenDifferentStates ==
    /\ pc = "done"
    /\ T1 /= T2 /\ nu1 /= nu2
    /\ IsFin(dh_prime) /\ dh_prime /= Zero
    /\ IsFin(dg_prime) /\ dg_prime /= Zero
    /\ IsFin(du_prime) /\ du_prime /= Zero

\* C4: each of the five totals of a run from state 1 to state 2 is the negative
\* of the total of the run from state 2 to state 1
C4_ReverseRunNegatesTotals ==
    pc = "done" =>
        /\ dh = FNeg(h_change(T2, nu2, T1, nu1))
        /\ du = FNeg(u_change(T2, nu2, T1, nu1))
        /\ ds = FNeg(s_change(T2, nu2, T1, nu1))
        /\ dnu = FNeg(v_change(T2, nu2, T1, nu1))
        /\ dg = FNeg(g_change(T2, nu2, T1, nu1))

\* C5: when state 1 and state 2 are the same, the run ends with every ideal-gas
\* contribution, the pressure integral, every departure change and every total
\* equal to zero
C5_SameStateNoChange ==
    (T1 = T2 /\ rho1 = rho2) =>
        /\ pc /= "failed"
        /\ \A x \in {du_id, dh_id, dg_id, ds_id, dnu_id,
                     dh_prime, ds_prime, dg_prime, dv_prime, du_prime,
                     dh, ds, dg, dnu, du} : x \in {None, Zero}
        /\ pc \notin {"states", "du_id", "dh_id", "dg_id"}
               => PressureIntegral(P1_id, P2_id) = Zero
        /\ pc = "done" => \A x \in {dh, ds, dg, dnu, du} : x = Zero

\* C5 witness: a finished run from a state to itself
C5_RunFromAStateToItself ==
    /\ pc = "done"
    /\ T1 = T2 /\ rho1 = rho2 /\ nu1 = nu2
    /\ du = Zero

\* C6: the internal-energy departure of each state is Δh' - P*Δv' and its Gibbs
\* departure is Δh' - T*Δs', with Δh', Δs', Δv', the Peng-Robinson pressure P
\* and T all taken at that state
C6_DerivedDeparturesAtOneState ==
    /\ pc \in {"v", "u", "done"} =>
           /\ dg1_prime = FSub(h_departure(T1, nu1), FMul(T1, s_departure(T1, nu1)))
           /\ dg2_prime = FSub(h_departure(T2, nu2), FMul(T2, s_departure(T2, nu2)))
    /\ pc = "done" =>
           /\ P1 = peng_robinson_PExplicit(T1, nu1, Tc, Pc, omega, R)
           /\ P2 = peng_robinson_PExplicit(T2, nu2, Tc, Pc, omega, R)
           /\ du1_prime = FSub(h_departure(T1, nu1), FMul(P1, v_departure(T1, nu1)))
           /\ du2_prime = FSub(h_departure(T2, nu2), FMul(P2, v_departure(T2, nu2)))

\* C6 witness: a finished run between different states, whose Peng-Robinson
\* pressures differ from the ideal-gas pressures
C6_RunWithRealGasPressures ==
    /\ pc = "done"
    /\ T1 /= T2 /\ P1 /= P2
    /\ P1 /= P1_id /\ P2 /= P2_id
    /\ IsFin(du1_prime) /\ IsFin(du2_prime) /\ IsFin(dg1_prime) /\ IsFin(dg2_prime)

\* C9: when the ideal-gas pressure of a state is not positive, the run fails
\* before Δs_id, Δg_id or Δν_id gets a value
C9_NoIdealChangeForNonPositivePressure ==
    (FLe(P1_id, Zero) \/ FLe(P2_id, Zero)) =>
        /\ dg_id = None /\ ds_id = None /\ dnu_id = None
        /\ pc /= "done"

\* |x|
FAbs(x) == IF FSign(x) < 0 THEN FNeg(x) ELSE x

\* x is ref to within the relative tolerance tol: |x - ref| <= tol * |ref|
Within(x, ref, tol) == FLe(FAbs(FSub(x, ref)), FMul(tol, FAbs(ref)))

\* the relative tolerances of a comparison: of one pass of the quadrature rule
\* with the closed form of the integral, of a rounded result with the exact
\* one, and the "about 1%" of a reference value
QuadTolerance == Lit(100000, -8)
Rounding == Lit(100000, -9)
OnePercent == Lit(100000, -7)

MethaneScenario ==
    /\ Tc = Lit(190000, -3) /\ Pc = Lit(459900, 1) /\ omega = Lit(120000, -7)
    /\ T1 = Lit(173150, -3) /\ rho1 = Lit(188000, -1)
    /\ T2 = Lit(298150, -3) /\ rho2 = Lit(750000, -3)

\* C13: for methane between the two states of the notebook each of Δh_id,
\* Δs_id, Δν_id and the totals Δh, Δs, Δu, Δν is, once computed, within 1% of
\* 4267.88 J/mol, 40.77 J/(mol K), 1.280e-3 m3/mol, 10031.6 J/mol,
\* 72.89 J/(mol K), 9861.4 J/mol and 1.74e-3 m3/mol
C13_MethaneScenarioValues ==
    MethaneScenario =>
        /\ pc /= "failed"
        /\ dh_id /= None => Within(dh_id, Lit(426788, -2), OnePercent)
        /\ ds_id /= None => Within(ds_id, Lit(407700, -4), OnePercent)
        /\ dnu_id /= None => Within(dnu_id, Lit(128000, -8), OnePercent)
        /\ dh /= None => Within(dh, Lit(100316, -1), OnePercent)
        /\ ds /= None => Within(ds, Lit(728900, -4), OnePercent)
        /\ du /= None => Within(du, Lit(986140, -2), OnePercent)
        /\ dnu /= None => Within(dnu, Lit(174000, -8), OnePercent)

\* C13 witness: the published run has finished with all its totals computed
C13_MethaneScenarioFinished ==
    /\ MethaneScenario
    /\ pc = "done"
    /\ \A x \in {dh_id, ds_id, dnu_id, dh, ds, du, dnu} : IsFin(x)

\* |x - y| <= tol * scale
Near(x, y, scale, tol) == FLe(FAbs(FSub(x, y)), FMul(tol, FAbs(scale)))

\* C14: the ideal-gas pressures being R*T/ν of each state, the ideal volume
\* change R*T2/P2_id - R*T1/P1_id is ν2 - ν1 (to rounding), so the total volume
\* change is (ν2 - ν1) + Δv'(state 1) - Δv'(state 2), and it is not ν2 - ν1
\* when the volume departures of the two states differ
C14_IdealVolumeChangeIsVolumeDifference ==
    /\ P1_id /= None => (P1_id = PyDiv(FMul(R, T1), nu1) /\ P2_id = PyDiv(FMul(R, T2), nu2))
    /\ dnu_id /= None =>
           /\ dnu_id = FSub(PyDiv(FMul(R, T2), P2_id), PyDiv(FMul(R, T1), P1_id))
           /\ Near(dnu_id, FSub(nu2, nu1), FAdd(nu1, nu2), Rounding)
    /\ dnu /= None =>
           /\ dnu = FAdd(dnu_id, FSub(v_departure(T1, nu1), v_departure(T2, nu2)))
           /\ Near(dnu, FAdd(FSub(nu2, nu1),
                             FSub(v_departure(T1, nu1), v_departure(T2, nu2))),
                   FAdd(nu1, nu2), Rounding)
           /\ v_departure(T1, nu1) /= v_departure(T2, nu2) => dnu /= FSub(nu2, nu1)

\* C14 witness: a run has reported a total volume change between states whose
\* volumes and volume departures differ
C14_VolumeChangeWithDifferentDepartures ==
    /\ dnu /= None /\ IsFin(dnu)
    /\ nu1 /= nu2
    /\ IsFin(dv_prime) /\ dv_prime /= Zero
    /\ dnu /= dnu_id

\* the departure formulas, given the attraction parameter of the substance,
\* are the departure functions of the notebook
FormulasAreTheFunctions(T, nu) ==
    LET a == PRa(Tc, Pc, R)
    IN  /\ EnthalpyFormula(a, T, nu, omega, Tc, Pc, R) = entalphy(T, nu, omega, Tc, Pc, R)
        /\ EntropyFormula(a, T, nu, omega, Tc, Pc, R) = entrophy(T, nu, omega, Tc, Pc, R)
        /\ VolumeFormula(a, T, nu, omega, Tc, Pc, R) = volume(T, nu, omega, Tc, Pc, R)
        /\ PressureFormula(a, T, nu, omega, Tc, Pc, R)
               = peng_robinson_PExplicit(T, nu, Tc, Pc, omega, R)

\* the departures h, s, g, v, u of one state for a = 0: s and u are 0 to
\* rounding, h is -R*T*b/(ν - b), g is h to rounding and v is -b to rounding
CovolumeDepartures(T, nu, dh1, ds1, dg1, dv1, du1) ==
    LET b == PRb(Tc, Pc, R)
    IN  /\ FLt(b, nu)
        /\ dh1 = PyDiv(FMul(FMul(FNeg(R), T), b), FSub(nu, b))
        /\ FLt(dh1, Zero)
        /\ Near(ds1, Zero, R, Rounding)
        /\ Near(du1, Zero, FMul(R, T), Rounding)
        /\ Near(dg1, dh1, FMul(R, T), Rounding)
        /\ Near(dv1, FNeg(b), nu, Rounding)

\* C11: with the attraction parameter a set to 0 and the covolume b as
\* computed, at each of the two states, both with ν > b, the entropy and
\* internal-energy departures are 0 to rounding, while the enthalpy and Gibbs
\* departures are -R*T*b/(ν - b) and the volume departure is -b; the totals Δs,
\* Δu and Δν are the ideal-gas changes to rounding, while Δh and Δg are the
\* ideal-gas change plus the difference of those departures, which is not the
\* ideal-gas change when the departures of the two states differ
C11_CovolumeDeparturesRemainWithoutAttraction ==
    /\ pc /= "failed"
    /\ pc = "done" =>
           /\ FormulasAreTheFunctions(T1, nu1) /\ FormulasAreTheFunctions(T2, nu2)
           /\ CovolumeDepartures(T1, nu1, h1_prime, s1_prime, dg1_prime, nu1_prime,
                                 du1_prime)
           /\ CovolumeDepartures(T2, nu2, h2_prime, s2_prime, dg2_prime, nu2_prime,
                                 du2_prime)
           /\ Near(ds, ds_id, FMul(Two, R), Rounding)
           /\ Near(du, du_id, FMul(R, FAdd(T1, T2)), Rounding)
           /\ Near(dnu, dnu_id, FAdd(nu1, nu2), Rounding)
           /\ dh = FAdd(dh_id, FSub(h1_prime, h2_prime))
           /\ dg = FAdd(dg_id, FSub(dg1_prime, dg2_prime))
           /\ h1_prime /= h2_prime => (dh /= dh_id /\ dg /= dg_id)

\* C11 as stated: with a set to 0 every departure of the two states is 0, and
\* every total is the ideal-gas change
C11_NoDepartureWithoutAttraction ==
    pc = "done" =>
        /\ \A d \in {h1_prime, h2_prime, dg1_prime, dg2_prime, du1_prime, du2_prime} :
               Near(d, Zero, FMul(R, FAdd(T1, T2)), Rounding)
        /\ \A d \in {s1_prime, s2_prime} : Near(d, Zero, R, Rounding)
        /\ \A d \in {nu1_prime, nu2_prime} : Near(d, Zero, FAdd(nu1, nu2), Rounding)
        /\ Near(dh, dh_id, FMul(R, FAdd(T1, T2)), Rounding)
        /\ Near(dg, dg_id, FMul(R, FAdd(T1, T2)), Rounding)
        /\ Near(du, du_id, FMul(R, FAdd(T1, T2)), Rounding)
        /\ Near(ds, ds_id, FMul(Two, R), Rounding)
        /\ Near(dnu, dnu_id, FAdd(nu1, nu2), Rounding)

\* C11 witness: a finished run of the substance without attraction between
\* states of different temperature and volume, above the covolume
C11_RunWithoutAttraction ==
    /\ pc = "done"
    /\ P1 = PyDiv(FMul(R, T1), FSub(nu1, PRb(Tc, Pc, R)))
    /\ T1 /= T2 /\ nu1 /= nu2
    /\ FLt(PRb(Tc, Pc, R), nu1) /\ FLt(PRb(Tc, Pc, R), nu2)
    /\ IsFin(h1_prime) /\ IsFin(h2_prime) /\ h1_prime /= h2_prime

=============================================================================
